---- MODULE Spec2Model ----
(***************************************************************************)
(* Model of czkawka_gui/src/taskbar_progress_win.rs: the TaskbarProgress   *)
(* handle in front of ITaskbarList3 (SetProgressState / SetProgressValue), *)
(* its construction from a HWND, release() and Drop.                       *)
(***************************************************************************)
EXTENDS Integers, Sequences, FiniteSets, TLC

\* ---- bounds ----
MaxTotal == 1
MaxHwnd == 1

\* ---- values of the platform interface ----
S_OK == 0
S_FALSE == 1
E_POINTER == -2147467261
RPC_E_CHANGED_MODE == -2147417850

TBPF_NOPROGRESS == "NOPROGRESS"
TBPF_INDETERMINATE == "INDETERMINATE"
TBPF_NORMAL == "NORMAL"
TBPF_ERROR == "ERROR"
TBPF_PAUSED == "PAUSED"
TBPFLAG == {TBPF_NOPROGRESS, TBPF_INDETERMINATE, TBPF_NORMAL, TBPF_ERROR, TBPF_PAUSED}

\* ptr::null_mut() for HWND and for *mut ITaskbarList3
NullHwnd == 0
NullPtr == "null"
ValidPtr == "ITaskbarList3"

\* inputs drawn by the environment
Hwnds == 0..MaxHwnd
Counts == 0..MaxTotal
CoInitResults == {S_OK, S_FALSE, RPC_E_CHANGED_MODE}
RemoteResults == {S_OK, E_POINTER}
\* a handle without ITaskbarList3 object has nothing that could answer
Answers(s) == IF s.taskbar_list = "null" THEN {S_OK} ELSE RemoteResults

VARIABLES
  self,              \* the TaskbarProgress struct
  cfg_test,          \* cfg!(test) of the build
  debug_assertions,  \* whether debug_assert! is compiled in
  pc,                \* "live", "panicked" (debug_assert failed), "dropped"
  com,               \* construction outcome; teardown calls so far; whether release()
                     \* was called "never", "once" or "again"
  remote,            \* last state / fill the ITaskbarList3 object answered S_OK to;
                     \* filled: a fill was accepted after the last accepted state
  op,                \* the last operation called on the handle
  pre,               \* the struct as it was when the last operation started
  calls              \* platform calls issued by the last operation, in order

vars == <<self, cfg_test, debug_assertions, pc, com, remote, op, pre, calls>>

\* ---- records of the history variables ----
Call(fn, hwnd, flags, completed, total, hr) ==
  [fn |-> fn, hwnd |-> hwnd, flags |-> flags, completed |-> completed, total |-> total, hr |-> hr]

\* hr: what the ITaskbarList3 object answers to this operation if it is asked
Op(name, flags, completed, total, hr) ==
  [name |-> name, flags |-> flags, completed |-> completed, total |-> total, hr |-> hr]

\* variant of the struct literal that starts shown
TaskbarProgress_shown(hwnd, taskbar_list, must_uninit_com) ==
  [hwnd |-> hwnd,
   taskbar_list |-> taskbar_list,
   current_state |-> TBPF_NOPROGRESS,
   current_progress |-> <<0, 0>>,
   must_uninit_com |-> must_uninit_com,
   is_active |-> TRUE]

\* ---- struct TaskbarProgress ----
TaskbarProgress(hwnd, taskbar_list, must_uninit_com) ==
  [hwnd |-> hwnd,
   taskbar_list |-> taskbar_list,
   current_state |-> TBPF_NOPROGRESS,
   current_progress |-> <<0, 0>>,
   must_uninit_com |-> must_uninit_com,
   is_active |-> FALSE]

\* variants of from: the hwnd is kept when CoCreateInstance gives no object;
\* the session is not recorded when CoCreateInstance gives an object
From_keeps_hwnd(hwnd, init_result, created) ==
  IF hwnd = NullHwnd THEN TaskbarProgress(hwnd, NullPtr, FALSE)
  ELSE IF init_result < 0 THEN TaskbarProgress(NullHwnd, NullPtr, FALSE)
  ELSE TaskbarProgress(hwnd, IF created THEN ValidPtr ELSE NullPtr, TRUE)

From_forgets_session(hwnd, init_result, created) ==
  IF hwnd = NullHwnd THEN TaskbarProgress(hwnd, NullPtr, FALSE)
  ELSE IF init_result < 0 THEN TaskbarProgress(NullHwnd, NullPtr, FALSE)
  ELSE LET taskbar_list == IF created THEN ValidPtr ELSE NullPtr
       IN TaskbarProgress(IF taskbar_list = NullPtr THEN NullHwnd ELSE hwnd, taskbar_list,
                          taskbar_list = NullPtr)

\* impl From<HWND>: init_result is what CoInitializeEx answers, created whether
\* CoCreateInstance stores an object in taskbar_list
From(hwnd, init_result, created) ==
  IF hwnd = NullHwnd THEN TaskbarProgress(hwnd, NullPtr, FALSE)
  ELSE IF init_result < 0 THEN TaskbarProgress(NullHwnd, NullPtr, FALSE)
  ELSE LET taskbar_list == IF created THEN ValidPtr ELSE NullPtr
       IN TaskbarProgress(IF taskbar_list = NullPtr THEN NullHwnd ELSE hwnd, taskbar_list, TRUE)

\* the platform calls From makes, in order
FromCalls(hwnd, init_result, created) ==
  IF hwnd = NullHwnd THEN <<>>
  ELSE IF init_result < 0 THEN <<Call("CoInitializeEx", NullHwnd, "-", 0, 0, init_result)>>
  ELSE <<Call("CoInitializeEx", NullHwnd, "-", 0, 0, init_result),
         Call("CoCreateInstance", NullHwnd, "-", 0, 0, IF created THEN S_OK ELSE E_POINTER)>>

\* variants of set_progress_state with one condition of the code changed
set_progress_state_ungated(s, tbp_flags, remote_hr) ==
  IF tbp_flags = s.current_state
  THEN [self |-> s, calls |-> <<>>]
  ELSE LET has_list == s.taskbar_list # NullPtr
           result == IF has_list THEN remote_hr
                     ELSE IF cfg_test THEN S_OK ELSE E_POINTER
       IN [self |-> IF result = S_OK THEN [s EXCEPT !.current_state = tbp_flags] ELSE s,
           calls |-> IF has_list
                     THEN <<Call("SetProgressState", s.hwnd, tbp_flags, 0, 0, remote_hr)>>
                     ELSE <<>>]

set_progress_state_commit_always(s, tbp_flags, remote_hr) ==
  IF tbp_flags = s.current_state \/ ~s.is_active
  THEN [self |-> s, calls |-> <<>>]
  ELSE LET has_list == s.taskbar_list # NullPtr
       IN [self |-> [s EXCEPT !.current_state = tbp_flags],
           calls |-> IF has_list
                     THEN <<Call("SetProgressState", s.hwnd, tbp_flags, 0, 0, remote_hr)>>
                     ELSE <<>>]

set_progress_state_no_epointer(s, tbp_flags, remote_hr) ==
  IF tbp_flags = s.current_state \/ ~s.is_active
  THEN [self |-> s, calls |-> <<>>]
  ELSE LET has_list == s.taskbar_list # NullPtr
           result == IF has_list THEN remote_hr ELSE S_OK
       IN [self |-> IF result = S_OK THEN [s EXCEPT !.current_state = tbp_flags] ELSE s,
           calls |-> IF has_list
                     THEN <<Call("SetProgressState", s.hwnd, tbp_flags, 0, 0, remote_hr)>>
                     ELSE <<>>]

\* variant of set_progress_state that forwards a state equal to the cached one
set_progress_state_no_suppress(s, tbp_flags, remote_hr) ==
  IF ~s.is_active
  THEN [self |-> s, calls |-> <<>>]
  ELSE LET has_list == s.taskbar_list # NullPtr
           result == IF has_list THEN remote_hr
                     ELSE IF cfg_test THEN S_OK ELSE E_POINTER
       IN [self |-> IF result = S_OK THEN [s EXCEPT !.current_state = tbp_flags] ELSE s,
           calls |-> IF has_list
                     THEN <<Call("SetProgressState", s.hwnd, tbp_flags, 0, 0, remote_hr)>>
                     ELSE <<>>]

\* ---- set_progress_state ----
\* remote_hr is the answer of ITaskbarList3::SetProgressState if it is called
set_progress_state(s, tbp_flags, remote_hr) ==
  IF tbp_flags = s.current_state \/ ~s.is_active
  THEN [self |-> s, calls |-> <<>>]
  ELSE LET has_list == s.taskbar_list # NullPtr
           result == IF has_list THEN remote_hr
                     ELSE IF cfg_test THEN S_OK ELSE E_POINTER
       IN [self |-> IF result = S_OK THEN [s EXCEPT !.current_state = tbp_flags] ELSE s,
           calls |-> IF has_list
                     THEN <<Call("SetProgressState", s.hwnd, tbp_flags, 0, 0, remote_hr)>>
                     ELSE <<>>]

\* variants of set_progress_value with one condition of the code changed
set_progress_value_ungated(s, completed, total, remote_hr) ==
  IF <<completed, total>> = s.current_progress
        /\ s.current_state # TBPF_NOPROGRESS
        /\ s.current_state # TBPF_INDETERMINATE
  THEN [self |-> s, calls |-> <<>>]
  ELSE LET has_list == s.taskbar_list # NullPtr
           result == IF has_list THEN remote_hr
                     ELSE IF cfg_test THEN S_OK ELSE E_POINTER
           promoted == IF s.current_state = TBPF_NOPROGRESS \/ s.current_state = TBPF_INDETERMINATE
                       THEN TBPF_NORMAL ELSE s.current_state
       IN [self |-> IF result = S_OK
                    THEN [s EXCEPT !.current_progress = <<completed, total>>,
                                   !.current_state = promoted]
                    ELSE s,
           calls |-> IF has_list
                     THEN <<Call("SetProgressValue", s.hwnd, "-", completed, total, remote_hr)>>
                     ELSE <<>>]

set_progress_value_eq_return(s, completed, total, remote_hr) ==
  IF <<completed, total>> = s.current_progress \/ ~s.is_active
  THEN [self |-> s, calls |-> <<>>]
  ELSE LET has_list == s.taskbar_list # NullPtr
           result == IF has_list THEN remote_hr
                     ELSE IF cfg_test THEN S_OK ELSE E_POINTER
           promoted == IF s.current_state = TBPF_NOPROGRESS \/ s.current_state = TBPF_INDETERMINATE
                       THEN TBPF_NORMAL ELSE s.current_state
       IN [self |-> IF result = S_OK
                    THEN [s EXCEPT !.current_progress = <<completed, total>>,
                                   !.current_state = promoted]
                    ELSE s,
           calls |-> IF has_list
                     THEN <<Call("SetProgressValue", s.hwnd, "-", completed, total, remote_hr)>>
                     ELSE <<>>]

set_progress_value_promote_all(s, completed, total, remote_hr) ==
  IF (<<completed, total>> = s.current_progress
        /\ s.current_state # TBPF_NOPROGRESS
        /\ s.current_state # TBPF_INDETERMINATE)
     \/ ~s.is_active
  THEN [self |-> s, calls |-> <<>>]
  ELSE LET has_list == s.taskbar_list # NullPtr
           result == IF has_list THEN remote_hr
                     ELSE IF cfg_test THEN S_OK ELSE E_POINTER
       IN [self |-> IF result = S_OK
                    THEN [s EXCEPT !.current_progress = <<completed, total>>,
                                   !.current_state = TBPF_NORMAL]
                    ELSE s,
           calls |-> IF has_list
                     THEN <<Call("SetProgressValue", s.hwnd, "-", completed, total, remote_hr)>>
                     ELSE <<>>]

\* variant of set_progress_value that forwards a pair equal to the cached one
set_progress_value_no_suppress(s, completed, total, remote_hr) ==
  IF ~s.is_active
  THEN [self |-> s, calls |-> <<>>]
  ELSE LET has_list == s.taskbar_list # NullPtr
           result == IF has_list THEN remote_hr
                     ELSE IF cfg_test THEN S_OK ELSE E_POINTER
           promoted == IF s.current_state = TBPF_NOPROGRESS \/ s.current_state = TBPF_INDETERMINATE
                       THEN TBPF_NORMAL ELSE s.current_state
       IN [self |-> IF result = S_OK
                    THEN [s EXCEPT !.current_progress = <<completed, total>>,
                                   !.current_state = promoted]
                    ELSE s,
           calls |-> IF has_list
                     THEN <<Call("SetProgressValue", s.hwnd, "-", completed, total, remote_hr)>>
                     ELSE <<>>]

\* ---- set_progress_value, after the debug_assert ----
set_progress_value(s, completed, total, remote_hr) ==
  IF (<<completed, total>> = s.current_progress
        /\ s.current_state # TBPF_NOPROGRESS
        /\ s.current_state # TBPF_INDETERMINATE)
     \/ ~s.is_active
  THEN [self |-> s, calls |-> <<>>]
  ELSE LET has_list == s.taskbar_list # NullPtr
           result == IF has_list THEN remote_hr
                     ELSE IF cfg_test THEN S_OK ELSE E_POINTER
           promoted == IF s.current_state = TBPF_NOPROGRESS \/ s.current_state = TBPF_INDETERMINATE
                       THEN TBPF_NORMAL ELSE s.current_state
       IN [self |-> IF result = S_OK
                    THEN [s EXCEPT !.current_progress = <<completed, total>>,
                                   !.current_state = promoted]
                    ELSE s,
           calls |-> IF has_list
                     THEN <<Call("SetProgressValue", s.hwnd, "-", completed, total, remote_hr)>>
                     ELSE <<>>]

\* debug_assert!(completed <= total, ...) panics only when compiled in
debug_assert_fails(completed, total) == debug_assertions /\ ~(completed <= total)

\* variant of hide that leaves the gate open
hide_keeps_active(s, remote_hr) ==
  LET r == set_progress_state(s, TBPF_NOPROGRESS, remote_hr)
  IN [self |-> r.self, calls |-> r.calls]

\* variant of hide that also forgets the fill ratio
hide_clears_value(s, remote_hr) ==
  LET r == set_progress_state(s, TBPF_NOPROGRESS, remote_hr)
  IN [self |-> [r.self EXCEPT !.is_active = FALSE, !.current_progress = <<0, 0>>],
      calls |-> r.calls]

\* ---- hide / show ----
hide(s, remote_hr) ==
  LET r == set_progress_state(s, TBPF_NOPROGRESS, remote_hr)
  IN [self |-> [r.self EXCEPT !.is_active = FALSE], calls |-> r.calls]

show(s) == [self |-> [s EXCEPT !.is_active = TRUE], calls |-> <<>>]

\* variants of release that leave a field as it was
release_keeps_flag(s) ==
  LET has_list == s.taskbar_list # NullPtr
      s1 == IF has_list THEN [s EXCEPT !.taskbar_list = NullPtr, !.hwnd = NullHwnd] ELSE s
      c1 == IF has_list THEN <<Call("Release", NullHwnd, "-", 0, 0, S_OK)>> ELSE <<>>
      c2 == IF s1.must_uninit_com THEN <<Call("CoUninitialize", NullHwnd, "-", 0, 0, S_OK)>> ELSE <<>>
  IN [self |-> s1, calls |-> c1 \o c2]

release_keeps_ptr(s) ==
  LET has_list == s.taskbar_list # NullPtr
      c1 == IF has_list THEN <<Call("Release", NullHwnd, "-", 0, 0, S_OK)>> ELSE <<>>
      s2 == IF s.must_uninit_com THEN [s EXCEPT !.must_uninit_com = FALSE] ELSE s
      c2 == IF s.must_uninit_com THEN <<Call("CoUninitialize", NullHwnd, "-", 0, 0, S_OK)>> ELSE <<>>
  IN [self |-> s2, calls |-> c1 \o c2]

\* variant of release that leaves the hwnd
release_keeps_hwnd(s) ==
  LET has_list == s.taskbar_list # NullPtr
      s1 == IF has_list THEN [s EXCEPT !.taskbar_list = NullPtr] ELSE s
      c1 == IF has_list THEN <<Call("Release", NullHwnd, "-", 0, 0, S_OK)>> ELSE <<>>
      s2 == IF s1.must_uninit_com THEN [s1 EXCEPT !.must_uninit_com = FALSE] ELSE s1
      c2 == IF s1.must_uninit_com THEN <<Call("CoUninitialize", NullHwnd, "-", 0, 0, S_OK)>> ELSE <<>>
  IN [self |-> s2, calls |-> c1 \o c2]

\* ---- release ----
release(s) ==
  LET has_list == s.taskbar_list # NullPtr
      s1 == IF has_list THEN [s EXCEPT !.taskbar_list = NullPtr, !.hwnd = NullHwnd] ELSE s
      c1 == IF has_list THEN <<Call("Release", NullHwnd, "-", 0, 0, S_OK)>> ELSE <<>>
      s2 == IF s1.must_uninit_com THEN [s1 EXCEPT !.must_uninit_com = FALSE] ELSE s1
      c2 == IF s1.must_uninit_com THEN <<Call("CoUninitialize", NullHwnd, "-", 0, 0, S_OK)>> ELSE <<>>
  IN [self |-> s2, calls |-> c1 \o c2]

\* variant of drop that closes the session first
drop_uninit_first(s) ==
  LET c1 == IF s.taskbar_list # NullPtr THEN <<Call("Release", NullHwnd, "-", 0, 0, S_OK)>> ELSE <<>>
      c2 == IF s.must_uninit_com THEN <<Call("CoUninitialize", NullHwnd, "-", 0, 0, S_OK)>> ELSE <<>>
  IN [self |-> s, calls |-> c2 \o c1]

\* ---- Drop ----
drop(s) ==
  LET c1 == IF s.taskbar_list # NullPtr THEN <<Call("Release", NullHwnd, "-", 0, 0, S_OK)>> ELSE <<>>
      c2 == IF s.must_uninit_com THEN <<Call("CoUninitialize", NullHwnd, "-", 0, 0, S_OK)>> ELSE <<>>
  IN [self |-> s, calls |-> c1 \o c2]

\* ---- bookkeeping of what the platform saw ----
RECURSIVE CountFn(_, _)
CountFn(cs, fn) ==
  IF cs = <<>> THEN 0
  ELSE (IF Head(cs).fn = fn THEN 1 ELSE 0) + CountFn(Tail(cs), fn)

RECURSIVE Accepted(_, _)
Accepted(rem, cs) ==
  IF cs = <<>> THEN rem
  ELSE LET c == Head(cs)
           r1 == IF c.hr # S_OK THEN rem
                 ELSE IF c.fn = "SetProgressState"
                      THEN [rem EXCEPT !.state = c.flags, !.filled = FALSE]
                 ELSE IF c.fn = "SetProgressValue"
                      THEN [rem EXCEPT !.fill = <<c.completed, c.total>>, !.filled = TRUE]
                 ELSE rem
       IN Accepted(r1, Tail(cs))

Tally(c, cs) ==
  [c EXCEPT !.n_Release = @ + CountFn(cs, "Release"),
            !.n_CoUninitialize = @ + CountFn(cs, "CoUninitialize")]

\* one operation of the handle has run with outcome r
Ran(o, r) ==
  /\ self' = r.self
  /\ calls' = r.calls
  /\ pre' = self
  /\ op' = o
  /\ remote' = Accepted(remote, r.calls)
  /\ com' = [Tally(com, r.calls) EXCEPT
               !.releases = IF o.name # "release" THEN @
                            ELSE IF @ = "never" THEN "once" ELSE "again"]
  /\ UNCHANGED <<cfg_test, debug_assertions>>

\* ---- the state after construction ----
Init ==
  /\ cfg_test \in BOOLEAN
  /\ debug_assertions \in BOOLEAN
  /\ \E hwnd \in Hwnds, init_result \in CoInitResults, created \in BOOLEAN :
       LET cs == FromCalls(hwnd, init_result, created)
       IN /\ self = From(hwnd, init_result, created)
          /\ calls = cs
          /\ com = [hwnd_in |-> hwnd,
                    session |-> CountFn(cs, "CoInitializeEx") = 1 /\ init_result >= 0,
                    activated |-> CountFn(cs, "CoCreateInstance") = 1 /\ created,
                    n_Release |-> 0,
                    n_CoUninitialize |-> 0,
                    releases |-> "never"]
  /\ pre = self
  /\ pc = "live"
  /\ remote = [state |-> TBPF_NOPROGRESS, fill |-> <<0, 0>>, filled |-> FALSE]
  /\ op = Op("from", "-", 0, 0, S_OK)

\* ---- operations ----
SetProgressState ==
  /\ pc = "live"
  /\ \E tbp_flags \in TBPFLAG, hr \in Answers(self) :
       /\ Ran(Op("set_progress_state", tbp_flags, 0, 0, hr), set_progress_state(self, tbp_flags, hr))
       /\ pc' = pc

SetProgressValue ==
  /\ pc = "live"
  /\ \E completed \in Counts, total \in Counts, hr \in Answers(self) :
       IF debug_assert_fails(completed, total)
       THEN /\ Ran(Op("set_progress_value", "-", completed, total, hr), [self |-> self, calls |-> <<>>])
            /\ pc' = "panicked"
       ELSE /\ Ran(Op("set_progress_value", "-", completed, total, hr),
                   set_progress_value(self, completed, total, hr))
            /\ pc' = pc

Hide ==
  /\ pc = "live"
  /\ \E hr \in Answers(self) :
       /\ Ran(Op("hide", "-", 0, 0, hr), hide(self, hr))
       /\ pc' = pc

Show ==
  /\ pc = "live"
  /\ Ran(Op("show", "-", 0, 0, S_OK), show(self))
  /\ pc' = pc

Release ==
  /\ pc = "live"
  /\ Ran(Op("release", "-", 0, 0, S_OK), release(self))
  /\ pc' = pc

\* the handle goes out of scope, also while a panic unwinds
Drop ==
  /\ pc \in {"live", "panicked"}
  /\ Ran(Op("drop", "-", 0, 0, S_OK), drop(self))
  /\ pc' = "dropped"

Next == SetProgressState \/ SetProgressValue \/ Hide \/ Show \/ Release \/ Drop

Spec == Init /\ [][Next]_vars

TypeOK ==
  /\ self.hwnd \in Hwnds
  /\ self.taskbar_list \in {NullPtr, ValidPtr}
  /\ self.current_state \in TBPFLAG
  /\ self.current_progress \in Counts \X Counts
  /\ self.must_uninit_com \in BOOLEAN
  /\ self.is_active \in BOOLEAN
  /\ pc \in {"live", "panicked", "dropped"}

\* ---- vocabulary of the properties ----
IsRemoteCall(c) == c.fn \in {"SetProgressState", "SetProgressValue"}
RemoteCalls == SelectSeq(calls, IsRemoteCall)
AcceptedCall == RemoteCalls # <<>> /\ RemoteCalls[1].hr = S_OK
Setters == {"set_progress_state", "set_progress_value"}
PublicOps == {"show", "hide", "set_progress_state", "set_progress_value", "release"}
ValidValue == op.completed <= op.total
CacheUnchanged ==
  /\ self.current_state = pre.current_state
  /\ self.current_progress = pre.current_progress

\* C1: a SetProgressState / SetProgressValue call is issued only by an operation
\* that started with is_active = TRUE; show() issues no call at all; the only
\* call hide() can issue is one SetProgressState(hwnd, TBPF_NOPROGRESS).
C1_GateInvariant ==
  /\ (op.name # "from" /\ RemoteCalls # <<>>) => pre.is_active
  /\ op.name = "show" => calls = <<>>
  /\ op.name = "hide" =>
       \/ calls = <<>>
       \/ /\ Len(calls) = 1
          /\ calls[1].fn = "SetProgressState"
          /\ calls[1].flags = TBPF_NOPROGRESS
          /\ calls[1].hwnd = pre.hwnd
          /\ ~self.is_active

\* hide() on an active handle issued its reset call
C1_Witness ==
  /\ op.name = "hide"
  /\ pre.is_active
  /\ Len(calls) = 1
  /\ calls[1].fn = "SetProgressState"

\* C2 as stated: after hide() current_state is NOPROGRESS and is_active is
\* FALSE, and set_progress_state on an inactive handle leaves current_state.
C2_Original ==
  /\ op.name = "hide" => (self.current_state = TBPF_NOPROGRESS /\ ~self.is_active)
  /\ (op.name = "set_progress_state" /\ ~pre.is_active) =>
       self.current_state = pre.current_state

\* the reset inside hide() did not get an S_OK
ResetNotAccepted ==
  \/ ~pre.is_active
  \/ (RemoteCalls # <<>> /\ RemoteCalls[1].hr # S_OK)
  \/ (pre.taskbar_list = NullPtr /\ ~cfg_test)

\* C2 amended: after hide() is_active is FALSE, and current_state is
\* NOPROGRESS unless the reset was not accepted, in which case current_state is
\* what it was; while is_active is FALSE set_progress_state leaves
\* current_state unchanged, and only show() makes is_active TRUE again.
C2_HideDeactivates ==
  /\ op.name = "hide" =>
       /\ ~self.is_active
       /\ \/ self.current_state = TBPF_NOPROGRESS
          \/ (ResetNotAccepted /\ self.current_state = pre.current_state)
  /\ (op.name = "set_progress_state" /\ ~pre.is_active) =>
       self.current_state = pre.current_state
  /\ (op.name # "from" /\ ~pre.is_active /\ self.is_active) => op.name = "show"

\* hide() after INDETERMINATE reset the state to NOPROGRESS
C2_Witness ==
  /\ op.name = "hide"
  /\ pre.current_state = TBPF_INDETERMINATE
  /\ pre.is_active
  /\ self.current_state = TBPF_NOPROGRESS
  /\ ~self.is_active

\* C3 as stated: the cache equals the last state and the last pair the remote
\* object accepted, and an operation without an accepted call changes neither.
C3_Original ==
  /\ self.current_state = remote.state
  /\ self.current_progress = remote.fill
  /\ (op.name # "from" /\ ~AcceptedCall) => CacheUnchanged

\* the state the cache is to show after the remote's acceptances
ShownState ==
  IF remote.filled /\ remote.state \in {TBPF_NOPROGRESS, TBPF_INDETERMINATE}
  THEN TBPF_NORMAL
  ELSE remote.state

\* C3 amended: in a non-test build current_progress is the last accepted pair
\* and current_state is the last accepted state, or NORMAL once a fill was
\* accepted while that state was NOPROGRESS or INDETERMINATE; an operation
\* whose call was rejected never changes the cache, and one that sent no call
\* changes it only in a test build on an active handle without indicator.
C3_CacheFollowsRemote ==
  /\ ~cfg_test => (self.current_progress = remote.fill /\ self.current_state = ShownState)
  /\ (op.name # "from" /\ RemoteCalls # <<>> /\ ~AcceptedCall) => CacheUnchanged
  /\ (op.name # "from" /\ RemoteCalls = <<>> /\ ~CacheUnchanged) =>
       (cfg_test /\ pre.is_active /\ pre.taskbar_list = NullPtr)

\* a rejected request on an active handle after an accepted promotion
C3_Witness ==
  /\ ~cfg_test
  /\ op.name = "set_progress_state"
  /\ RemoteCalls # <<>>
  /\ ~AcceptedCall
  /\ remote.filled
  /\ remote.state = TBPF_INDETERMINATE
  /\ self.current_state = TBPF_NORMAL

\* C4: Release is called once if CoCreateInstance gave an object and never
\* otherwise, CoUninitialize once if CoInitializeEx did not fail and never
\* otherwise, whatever release() calls came before the drop; a drop after
\* release() calls neither, a drop without release() calls what release() would.
C4_TeardownOnce ==
  /\ com.n_Release <= (IF com.activated THEN 1 ELSE 0)
  /\ com.n_CoUninitialize <= (IF com.session THEN 1 ELSE 0)
  /\ pc = "dropped" =>
       /\ com.n_Release = (IF com.activated THEN 1 ELSE 0)
       /\ com.n_CoUninitialize = (IF com.session THEN 1 ELSE 0)
  /\ (op.name = "drop" /\ com.releases # "never") => calls = <<>>
  /\ (op.name = "drop" /\ com.releases = "never") => calls = release(pre).calls

\* a drop after release() on a handle that held both resources
C4_Witness ==
  /\ pc = "dropped"
  /\ com.releases # "never"
  /\ com.activated
  /\ com.n_Release = 1
  /\ com.n_CoUninitialize = 1

\* C5: after release() the handle has no indicator, a null hwnd and
\* must_uninit_com = FALSE; a second or later release() issues no call, does
\* not panic and leaves every field as it was.
C5_ReleaseIdempotent ==
  op.name = "release" =>
    /\ self.taskbar_list = NullPtr
    /\ self.hwnd = NullHwnd
    /\ ~self.must_uninit_com
    /\ pc = "live"
    /\ com.releases = "again" => (calls = <<>> /\ self = pre)

\* a second release() of a handle that held the indicator
C5_Witness ==
  /\ op.name = "release"
  /\ com.releases = "again"
  /\ com.activated
  /\ com.n_Release = 1
  /\ self.is_active

\* C6: while is_active is FALSE, set_progress_state(s) for any s and
\* set_progress_value(c, t) with c <= t leave current_state and
\* current_progress unchanged.
C6_InactiveFrame ==
  /\ (op.name = "set_progress_state" /\ ~pre.is_active) => CacheUnchanged
  /\ (op.name = "set_progress_value" /\ ValidValue /\ ~pre.is_active) => CacheUnchanged

\* a new value was requested on an inactive handle that holds an indicator
C6_Witness ==
  /\ op.name = "set_progress_value"
  /\ ValidValue
  /\ ~pre.is_active
  /\ pre.taskbar_list # NullPtr
  /\ <<op.completed, op.total>> # pre.current_progress
  /\ pc = "live"

\* the remote answers S_OK to the request of the last operation (in a test
\* build a handle without indicator counts as answering S_OK)
RemoteAccepts ==
  IF pre.taskbar_list # NullPtr THEN op.hr = S_OK ELSE cfg_test

\* C7: on an active handle in NOPROGRESS or INDETERMINATE, a
\* set_progress_value(c, t) with c <= t that the remote accepts ends with
\* current_progress = (c, t) and current_state = NORMAL, also when (c, t) is
\* the cached pair.
C7_ValuePromotes ==
  ( /\ op.name = "set_progress_value"
    /\ ValidValue
    /\ pre.is_active
    /\ pre.current_state \in {TBPF_NOPROGRESS, TBPF_INDETERMINATE}
    /\ RemoteAccepts ) =>
      /\ self.current_progress = <<op.completed, op.total>>
      /\ self.current_state = TBPF_NORMAL

\* the cached pair was sent again from INDETERMINATE and accepted
C7_Witness ==
  /\ op.name = "set_progress_value"
  /\ ValidValue
  /\ pre.is_active
  /\ pre.current_state = TBPF_INDETERMINATE
  /\ <<op.completed, op.total>> = pre.current_progress
  /\ op.total > 0
  /\ AcceptedCall
  /\ self.current_state = TBPF_NORMAL

\* C8: set_progress_value(c, t) with c <= t never changes a current_state of
\* PAUSED or ERROR, and only set_progress_state or hide() move the handle out
\* of PAUSED or ERROR.
C8_OverridePersists ==
  /\ ( /\ op.name = "set_progress_value"
       /\ ValidValue
       /\ pre.current_state \in {TBPF_PAUSED, TBPF_ERROR} ) =>
         self.current_state = pre.current_state
  /\ ( /\ op.name # "from"
       /\ pre.current_state \in {TBPF_PAUSED, TBPF_ERROR}
       /\ self.current_state # pre.current_state ) =>
         op.name \in {"set_progress_state", "hide"}

\* a new value was accepted while PAUSED
C8_Witness ==
  /\ op.name = "set_progress_value"
  /\ ValidValue
  /\ pre.current_state = TBPF_PAUSED
  /\ AcceptedCall
  /\ self.current_progress # pre.current_progress
  /\ self.current_state = TBPF_PAUSED

\* every SetProgressValue call of the last operation has completed <= total
FillCallsValid ==
  \A i \in 1..Len(calls) :
    calls[i].fn = "SetProgressValue" => calls[i].completed <= calls[i].total

\* C9: set_progress_value(c, t) with c > t panics, active or not, before any
\* SetProgressValue call and before the cache changes; no SetProgressValue
\* call carries completed > total, and current_progress has completed <= total.
C9_ContractViolationFatal ==
  /\ (op.name = "set_progress_value" /\ ~ValidValue) =>
       (pc = "panicked" /\ calls = <<>> /\ self = pre)
  /\ FillCallsValid
  /\ self.current_progress[1] <= self.current_progress[2]

\* construction found no usable platform capability
Inert == com.hwnd_in # NullHwnd /\ ~com.activated

\* C10 as stated: on such a handle every public operation surfaces no error,
\* issues no SetProgressState / SetProgressValue call and leaves the handle
\* as it was.
C10_Original ==
  (Inert /\ op.name \in PublicOps) =>
    (pc = "live" /\ RemoteCalls = <<>> /\ self = pre)

\* C10 amended: on such a handle every public operation issues no
\* SetProgressState / SetProgressValue call, keeps the indicator absent and
\* the hwnd null, and panics only for completed > total; show() and hide()
\* alone change is_active, release() alone changes must_uninit_com, and in a
\* non-test build current_state and current_progress stay NOPROGRESS, (0, 0).
C10_InertHandle ==
  (Inert /\ op.name \in PublicOps) =>
    /\ RemoteCalls = <<>>
    /\ self.taskbar_list = NullPtr
    /\ self.hwnd = NullHwnd
    /\ pc = "panicked" => ~ValidValue
    /\ self.is_active # pre.is_active => op.name \in {"show", "hide"}
    /\ self.must_uninit_com # pre.must_uninit_com => op.name = "release"
    /\ ~cfg_test =>
         (self.current_state = TBPF_NOPROGRESS /\ self.current_progress = <<0, 0>>)

\* a state change was requested on an active inert handle of a non-test build
C10_Witness ==
  /\ Inert
  /\ ~cfg_test
  /\ op.name = "set_progress_state"
  /\ op.flags # TBPF_NOPROGRESS
  /\ pre.is_active
  /\ com.session

\* release() had been called before the last operation started
ReleasedBefore ==
  \/ (op.name \notin {"from", "release"} /\ com.releases # "never")
  \/ com.releases = "again"

\* calls of the last operation that go to the ITaskbarList3 object
IsIndicatorCall(c) == c.fn \in {"SetProgressState", "SetProgressValue", "Release"}
IndicatorCalls == SelectSeq(calls, IsIndicatorCall)

\* C11: once release() has released the indicator, taskbar_list stays null in
\* every later state, and no later show, hide, set_progress_state,
\* set_progress_value, release or drop issues SetProgressState,
\* SetProgressValue or Release.
C11_ReleasedStaysAbsent ==
  /\ (com.activated /\ com.releases # "never") => self.taskbar_list = NullPtr
  /\ (com.activated /\ ReleasedBefore) => IndicatorCalls = <<>>

\* a state change requested on an active handle whose indicator was released
C11_Witness ==
  /\ com.activated
  /\ ReleasedBefore
  /\ op.name = "set_progress_state"
  /\ pre.is_active
  /\ op.flags # pre.current_state
  /\ ~cfg_test

\* the handle holds nothing of the platform
NoIndicator == self.taskbar_list = NullPtr /\ self.hwnd = NullHwnd

\* C12: construction ends in one of three outcomes. A null hwnd calls neither
\* CoInitializeEx nor CoCreateInstance, a CoInitializeEx error is not followed
\* by CoCreateInstance, and both give no indicator, a null hwnd and
\* must_uninit_com = FALSE; a CoInitializeEx success (S_FALSE included) with no
\* object gives no indicator, a null hwnd and must_uninit_com = TRUE; with an
\* object it gives the indicator, the input hwnd and must_uninit_com = TRUE.
C12_ConstructionOutcomes ==
  op.name = "from" =>
    /\ com.hwnd_in = NullHwnd =>
         (calls = <<>> /\ NoIndicator /\ ~self.must_uninit_com)
    /\ com.hwnd_in # NullHwnd =>
         /\ Len(calls) >= 1
         /\ calls[1].fn = "CoInitializeEx"
         /\ calls[1].hr < 0 =>
              (Len(calls) = 1 /\ NoIndicator /\ ~self.must_uninit_com)
         /\ calls[1].hr >= 0 =>
              /\ Len(calls) = 2
              /\ calls[2].fn = "CoCreateInstance"
              /\ self.must_uninit_com
              /\ IF calls[2].hr = S_OK
                 THEN self.taskbar_list # NullPtr /\ self.hwnd = com.hwnd_in
                 ELSE NoIndicator

\* the session was already open and CoCreateInstance gave no object
C12_Witness ==
  /\ op.name = "from"
  /\ Len(calls) = 2
  /\ calls[1].hr = S_FALSE
  /\ calls[2].hr # S_OK
  /\ self.must_uninit_com
  /\ NoIndicator

\* C13: every construction outcome gives current_state = NOPROGRESS,
\* current_progress = (0, 0) and is_active = FALSE, and construction calls
\* neither SetProgressState nor SetProgressValue.
C13_FreshHandleHidden ==
  op.name = "from" =>
    /\ self.current_state = TBPF_NOPROGRESS
    /\ self.current_progress = <<0, 0>>
    /\ ~self.is_active
    /\ RemoteCalls = <<>>

\* a handle constructed with the indicator
C13_Witness ==
  /\ op.name = "from"
  /\ self.taskbar_list # NullPtr
  /\ self.hwnd # NullHwnd
  /\ ~self.is_active

\* the pair of the last set_progress_value is to be forwarded
ValueToForward ==
  /\ pre.is_active
  /\ \/ <<op.completed, op.total>> # pre.current_progress
     \/ pre.current_state \in {TBPF_NOPROGRESS, TBPF_INDETERMINATE}

\* C14: on a handle with indicator, set_progress_value(c, t) with c <= t
\* issues exactly one SetProgressValue(hwnd, c, t) if is_active holds and
\* ((c, t) differs from current_progress or current_state is NOPROGRESS or
\* INDETERMINATE), and otherwise issues no call and changes no field.
C14_ValueSuppression ==
  (op.name = "set_progress_value" /\ ValidValue /\ pre.taskbar_list # NullPtr) =>
    IF ValueToForward
    THEN calls = <<Call("SetProgressValue", pre.hwnd, "-", op.completed, op.total, op.hr)>>
    ELSE calls = <<>> /\ self = pre

\* the cached pair was requested again in NORMAL and suppressed
C14_Witness ==
  /\ op.name = "set_progress_value"
  /\ ValidValue
  /\ pre.taskbar_list # NullPtr
  /\ pre.is_active
  /\ pre.current_state = TBPF_NORMAL
  /\ <<op.completed, op.total>> = pre.current_progress
  /\ op.total > 0
  /\ calls = <<>>

\* C15: on a handle with indicator, set_progress_state(s) issues exactly one
\* SetProgressState(hwnd, s) if is_active holds and s differs from
\* current_state, and otherwise issues no call and changes no field;
\* current_state changes to s exactly when that call was issued and answered
\* S_OK, and any other answer leaves the handle as it was.
C15_StateSuppression ==
  (op.name = "set_progress_state" /\ pre.taskbar_list # NullPtr) =>
    IF pre.is_active /\ op.flags # pre.current_state
    THEN /\ calls = <<Call("SetProgressState", pre.hwnd, op.flags, 0, 0, op.hr)>>
         /\ self = IF op.hr = S_OK THEN [pre EXCEPT !.current_state = op.flags] ELSE pre
    ELSE calls = <<>> /\ self = pre

\* a state change was forwarded and rejected
C15_Witness ==
  /\ op.name = "set_progress_state"
  /\ pre.taskbar_list # NullPtr
  /\ pre.is_active
  /\ op.flags # pre.current_state
  /\ Len(calls) = 1
  /\ calls[1].hr # S_OK
  /\ self = pre

\* C16: in every reachable state taskbar_list is set exactly when hwnd is not
\* null, and no SetProgressState / SetProgressValue call carries a null hwnd.
C16_IndicatorIffWindow ==
  /\ (self.taskbar_list # NullPtr) <=> (self.hwnd # NullHwnd)
  /\ \A i \in 1..Len(RemoteCalls) : RemoteCalls[i].hwnd # NullHwnd

\* release() of a handle that held indicator and hwnd cleared both
C16_Witness ==
  /\ op.name = "release"
  /\ com.releases = "once"
  /\ pre.taskbar_list # NullPtr
  /\ pre.hwnd # NullHwnd
  /\ NoIndicator

\* C17: in every reachable state a set taskbar_list implies must_uninit_com,
\* and must_uninit_com never goes from FALSE to TRUE.
C17_IndicatorNeedsSession ==
  /\ self.taskbar_list # NullPtr => self.must_uninit_com
  /\ (op.name # "from" /\ ~pre.must_uninit_com) => ~self.must_uninit_com

\* must_uninit_com went from TRUE to FALSE together with the indicator
C17_Witness ==
  /\ op.name = "release"
  /\ pre.is_active
  /\ pre.taskbar_list # NullPtr
  /\ pre.must_uninit_com
  /\ ~self.must_uninit_com
  /\ self.taskbar_list = NullPtr

\* C18: when release() or drop issues both Release and CoUninitialize, Release
\* comes first.
C18_ReleaseBeforeUninit ==
  op.name \in {"release", "drop"} =>
    \A i, j \in 1..Len(calls) :
      (calls[i].fn = "Release" /\ calls[j].fn = "CoUninitialize") => i < j

\* a drop that did both teardown steps
C18_Witness ==
  /\ op.name = "drop"
  /\ com.releases = "never"
  /\ CountFn(calls, "Release") = 1
  /\ CountFn(calls, "CoUninitialize") = 1

\* C19: current_progress changes only in set_progress_value on an active
\* handle (so not in show, hide, set_progress_state, release), and show,
\* set_progress_state and set_progress_value leave taskbar_list, hwnd and
\* must_uninit_com unchanged.
C19_ValueFrame ==
  /\ (op.name # "from" /\ self.current_progress # pre.current_progress) =>
       (op.name = "set_progress_value" /\ pre.is_active)
  /\ op.name \in {"show", "set_progress_state", "set_progress_value"} =>
       /\ self.taskbar_list = pre.taskbar_list
       /\ self.hwnd = pre.hwnd
       /\ self.must_uninit_com = pre.must_uninit_com

\* hide() of an active handle kept a fill ratio that had been set
C19_Witness ==
  /\ op.name = "hide"
  /\ pre.is_active
  /\ pre.current_progress # <<0, 0>>
  /\ self.current_progress = pre.current_progress
  /\ self.current_state = TBPF_NOPROGRESS
====
